---- MODULE Spec2Model ----
(***************************************************************************)
(* Model of aasvg-porffor.js: render(diagramString) -> svgString.          *)
(*                                                                         *)
(* A string is a sequence of one-character strings.  The SVG output is a   *)
(* sequence of elements (records), one per tag the code appends to `svg`,  *)
(* carrying the attribute values the code computes.  The content of a      *)
(* <text> element is a string (sequence of characters).                    *)
(***************************************************************************)
EXTENDS Integers, Sequences, FiniteSets, TLC

VARIABLES diagramString, pc, processed, reprocessed, lines, width, height, used, svg

vars == <<diagramString, pc, processed, reprocessed, lines, width, height, used, svg>>

(***************************************************************************)
(* Bounds of the model.                                                    *)
(***************************************************************************)
MaxLen == 4
MaxFairLen == 3
MaxDedentLen == 6
MaxIndent == 2

Alphabet == {" ", "\n", "-", "|", "+", ">", "o", "&", "a", ".", "\""}
DedentAlphabet == {" ", "\t", "\r", "\n", "a"}

StringsOver(A, n) == UNION {[1..k -> A] : k \in 0..n}

ArrowExample == <<"*", " ", "-", ">", " ", "o">>
StagesExample == <<"+", "-", ">", "o", "\n", "|", "a">>
QuoteExample == <<"+", "+", "\n", "|", "\"", "\n">>
Examples == {ArrowExample, StagesExample, QuoteExample}

Inputs == StringsOver(Alphabet, MaxLen) \cup Examples
FairInputs == StringsOver(Alphabet, MaxFairLen) \cup Examples
DedentInputs == StringsOver(DedentAlphabet, MaxDedentLen)

(***************************************************************************)
(* String primitives of the language.                                      *)
(***************************************************************************)
RECURSIVE Split(_)
Split(str) ==
    IF \E i \in 1..Len(str) : str[i] = "\n"
    THEN LET i == CHOOSE j \in 1..Len(str) :
                      /\ str[j] = "\n"
                      /\ \A k \in 1..(j - 1) : str[k] # "\n"
         IN  <<SubSeq(str, 1, i - 1)>> \o Split(SubSeq(str, i + 1, Len(str)))
    ELSE <<str>>

isWhiteSpace(c) == c \in {" ", "\t", "\n", "\r", "\f"}

Trim(line) ==
    LET keep == {i \in 1..Len(line) : ~isWhiteSpace(line[i])}
    IN  IF keep = {} THEN <<>>
        ELSE SubSeq(line, CHOOSE i \in keep : \A j \in keep : i <= j,
                          CHOOSE i \in keep : \A j \in keep : i >= j)

Substring(line, start) ==
    LET s == IF start < 0 THEN 0 ELSE IF start > Len(line) THEN Len(line) ELSE start
    IN  SubSeq(line, s + 1, Len(line))

(***************************************************************************)
(* escapeHTMLEntities                                                      *)
(***************************************************************************)
\* Variant: the branch for the double quote is missing.
EscapeCharNoQuote(c) ==
    IF c = "&" THEN <<"&", "a", "m", "p", ";">>
    ELSE IF c = "<" THEN <<"&", "l", "t", ";">>
    ELSE IF c = ">" THEN <<"&", "g", "t", ";">>
    ELSE <<c>>

EscapeChar(c) ==
    IF c = "&" THEN <<"&", "a", "m", "p", ";">>
    ELSE IF c = "<" THEN <<"&", "l", "t", ";">>
    ELSE IF c = ">" THEN <<"&", "g", "t", ";">>
    ELSE IF c = "\"" THEN <<"&", "q", "u", "o", "t", ";">>
    ELSE <<c>>

RECURSIVE escapeLoop(_, _, _)
escapeLoop(str, i, result) ==
    IF i < Len(str) THEN escapeLoop(str, i + 1, result \o EscapeChar(str[i + 1]))
    ELSE result

escapeHTMLEntities(str) == escapeLoop(str, 0, <<>>)

(***************************************************************************)
(* removeLeadingSpace                                                      *)
(***************************************************************************)
Sentinel == 999999

RECURSIVE spaceCountLoop(_, _)
spaceCountLoop(line, j) ==
    IF j < Len(line) /\ (line[j + 1] = " " \/ line[j + 1] = "\t")
    THEN spaceCountLoop(line, j + 1)
    ELSE j

LeadingSpaceCount(line) == spaceCountLoop(line, 0)

RECURSIVE minimumLoop(_, _, _)
minimumLoop(lineArray, i, minimum) ==
    IF i < Len(lineArray)
    THEN LET line == lineArray[i + 1]
             spaceCount == LeadingSpaceCount(line)
         IN  IF Trim(line) # <<>> /\ spaceCount < minimum
             THEN minimumLoop(lineArray, i + 1, spaceCount)
             ELSE minimumLoop(lineArray, i + 1, minimum)
    ELSE minimum

MinimumIndent(str) == minimumLoop(Split(str), 0, Sentinel)

\* Variant: whitespace-only lines are dropped instead of being stripped.
RECURSIVE stripLoopSkipBlank(_, _, _, _)
stripLoopSkipBlank(lineArray, minimum, i, result) ==
    IF i < Len(lineArray)
    THEN IF Trim(lineArray[i + 1]) # <<>>
         THEN stripLoopSkipBlank(lineArray, minimum, i + 1,
                   result \o Substring(lineArray[i + 1], minimum) \o <<"\n">>)
         ELSE stripLoopSkipBlank(lineArray, minimum, i + 1, result)
    ELSE result

RECURSIVE stripLoop(_, _, _, _)
stripLoop(lineArray, minimum, i, result) ==
    IF i < Len(lineArray)
    THEN stripLoop(lineArray, minimum, i + 1,
                   result \o Substring(lineArray[i + 1], minimum) \o <<"\n">>)
    ELSE result

\* Variant: the early return for a zero minimum is missing.
removeLeadingSpaceNoZeroReturn(str) ==
    LET minimum == MinimumIndent(str)
    IN  IF minimum = Sentinel
        THEN str
        ELSE stripLoop(Split(str), minimum, 0, <<>>)

removeLeadingSpace(str) ==
    LET minimum == MinimumIndent(str)
    IN  IF minimum = 0 \/ minimum = Sentinel
        THEN str
        ELSE stripLoop(Split(str), minimum, 0, <<>>)

(***************************************************************************)
(* Grid accessors                                                          *)
(***************************************************************************)
gridGet(ls, x, y) ==
    IF y < 0 \/ y >= Len(ls) THEN " "
    ELSE IF x < 0 \/ x >= Len(ls[y + 1]) THEN " "
    ELSE ls[y + 1][x + 1]

RECURSIVE gridWidthLoop(_, _, _)
gridWidthLoop(ls, i, w) ==
    IF i < Len(ls)
    THEN gridWidthLoop(ls, i + 1, IF Len(ls[i + 1]) > w THEN Len(ls[i + 1]) ELSE w)
    ELSE w

gridWidth(ls) == gridWidthLoop(ls, 0, 0)

gridHeight(ls) ==
    LET h == Len(ls)
    IN  IF h > 0 /\ ls[h] = <<>> THEN h - 1 ELSE h

(***************************************************************************)
(* Character classification                                                *)
(***************************************************************************)
\* The grave accent cannot be written inside a TLA+ string; this token stands for it.
Backtick == "grave"

isVertex(c) == c = "+" \/ c = "." \/ c = "'" \/ c = Backtick \/ c = ","
\* Variant: the arrow head '>' is taken for a horizontal line character.
isSolidHLineWithArrow(c) == c = "-" \/ c = "+" \/ c = ">"
isSolidHLine(c) == c = "-" \/ c = "+"
isSolidVLine(c) == c = "|" \/ c = "+"
isArrowHead(c) == c = ">" \/ c = "<" \/ c = "^" \/ c = "v" \/ c = "V"
isPoint(c) == c = "o" \/ c = "*"

(***************************************************************************)
(* render: geometry and the elements appended to svg                       *)
(***************************************************************************)
SCALE == 8
ASPECT == 2

Header(w, h) ==
    LET svgWidth == (w + 1) * SCALE
        svgHeight == (h + 1) * SCALE * ASPECT
    IN  [kind |-> "svg", width |-> svgWidth, height |-> svgHeight,
         viewBox |-> <<0, 0, svgWidth, svgHeight>>]

InitUsed(w, h) == [i \in 0..(h * w - 1) |-> FALSE]

Mark(u, S) == [i \in DOMAIN u |-> IF i \in S THEN TRUE ELSE u[i]]

LineElem(x1, y1, x2, y2) ==
    [kind |-> "line", x1 |-> x1, y1 |-> y1, x2 |-> x2, y2 |-> y2]

\* Horizontal pass: the run starting at startX in row y.
RECURSIVE HRunEnd(_, _, _, _)
HRunEnd(ls, w, x, y) ==
    IF x < w /\ isSolidHLine(gridGet(ls, x, y)) THEN HRunEnd(ls, w, x + 1, y) ELSE x

\* Variant: a run is marked used only when it is long enough to be drawn.
HRunUsedIfDrawn(u, w, startX, x, y) ==
    IF x - startX >= 2 THEN Mark(u, {y * w + i : i \in startX..(x - 1)}) ELSE u

HRunUsed(u, w, startX, x, y) == Mark(u, {y * w + i : i \in startX..(x - 1)})

\* Variant: the length test is off by one.
HRunLineOffByOne(startX, x, y) ==
    IF x - startX > 2
    THEN <<LineElem((startX + 1) * SCALE, (y + 1) * SCALE * ASPECT,
                    x * SCALE, (y + 1) * SCALE * ASPECT)>>
    ELSE <<>>

HRunLine(startX, x, y) ==
    IF x - startX >= 2
    THEN <<LineElem((startX + 1) * SCALE, (y + 1) * SCALE * ASPECT,
                    x * SCALE, (y + 1) * SCALE * ASPECT)>>
    ELSE <<>>

RECURSIVE HScan(_, _, _, _, _, _)
HScan(ls, w, h, x, y, st) ==
    IF y >= h THEN st
    ELSE IF x >= w THEN HScan(ls, w, h, 0, y + 1, st)
    ELSE IF isSolidHLine(gridGet(ls, x, y))
         THEN LET e == HRunEnd(ls, w, x, y)
              IN  HScan(ls, w, h, e, y,
                        [used |-> HRunUsed(st.used, w, x, e, y),
                         svg |-> st.svg \o HRunLine(x, e, y)])
         ELSE HScan(ls, w, h, x + 1, y, st)

HLinePass(ls, w, h, st) == HScan(ls, w, h, 0, 0, st)

\* Vertical pass: the run starting at startY in column x.
RECURSIVE VRunEnd(_, _, _, _)
VRunEnd(ls, h, x, y) ==
    IF y < h /\ isSolidVLine(gridGet(ls, x, y)) THEN VRunEnd(ls, h, x, y + 1) ELSE y

VRunUsed(u, w, x, startY, y) == Mark(u, {j * w + x : j \in startY..(y - 1)})

VRunLine(x, startY, y) ==
    IF y - startY >= 2
    THEN <<LineElem((x + 1) * SCALE, (startY + 1) * SCALE * ASPECT,
                    (x + 1) * SCALE, y * SCALE * ASPECT)>>
    ELSE <<>>

RECURSIVE VScan(_, _, _, _, _, _)
VScan(ls, w, h, x, y, st) ==
    IF x >= w THEN st
    ELSE IF y >= h THEN VScan(ls, w, h, x + 1, 0, st)
    ELSE IF isSolidVLine(gridGet(ls, x, y))
         THEN LET e == VRunEnd(ls, h, x, y)
              IN  VScan(ls, w, h, x, e,
                        [used |-> VRunUsed(st.used, w, x, y, e),
                         svg |-> st.svg \o VRunLine(x, y, e)])
         ELSE VScan(ls, w, h, x, y + 1, st)

VLinePass(ls, w, h, st) == VScan(ls, w, h, 0, 0, st)

\* Arrow heads.
ArrowAngle(c) ==
    IF c = ">" THEN 0
    ELSE IF c = "v" \/ c = "V" THEN 90
    ELSE IF c = "<" THEN 180
    ELSE IF c = "^" THEN 270
    ELSE 0

ArrowElem(c, x, y) ==
    LET cx == (x + 1) * SCALE
        cy == (y + 1) * SCALE * ASPECT
    IN  [kind |-> "polygon",
         points |-> <<<<cx + 8, cy>>, <<cx - 4, cy - 3>>, <<cx - 4, cy + 3>>>>,
         fill |-> "black", angle |-> ArrowAngle(c), cx |-> cx, cy |-> cy]

\* Variant: the arrow head is drawn but its cell is not marked used.
ArrowCellUnmarked(ls, w, x, y, st) ==
    LET c == gridGet(ls, x, y)
    IN  IF isArrowHead(c)
        THEN [used |-> st.used, svg |-> Append(st.svg, ArrowElem(c, x, y))]
        ELSE st

ArrowCell(ls, w, x, y, st) ==
    LET c == gridGet(ls, x, y)
    IN  IF isArrowHead(c)
        THEN [used |-> Mark(st.used, {y * w + x}),
              svg |-> Append(st.svg, ArrowElem(c, x, y))]
        ELSE st

\* Points.
PointElem(c, x, y) ==
    LET cx == (x + 1) * SCALE
        cy == (y + 1) * SCALE * ASPECT
    IN  IF c = "*"
        THEN [kind |-> "circle", cx |-> cx, cy |-> cy, r |-> 6,
              fill |-> "black", stroke |-> "none"]
        ELSE [kind |-> "circle", cx |-> cx, cy |-> cy, r |-> 6,
              fill |-> "white", stroke |-> "black"]

\* Variant: arrow heads and points are drawn by one and the same scan.
PointCellWithArrows(ls, w, x, y, st) ==
    LET c == gridGet(ls, x, y)
    IN  IF isPoint(c)
        THEN [used |-> Mark(st.used, {y * w + x}),
              svg |-> Append(st.svg, PointElem(c, x, y))]
        ELSE IF isArrowHead(c)
        THEN [used |-> Mark(st.used, {y * w + x}),
              svg |-> Append(st.svg, ArrowElem(c, x, y))]
        ELSE st

PointCell(ls, w, x, y, st) ==
    LET c == gridGet(ls, x, y)
    IN  IF isPoint(c)
        THEN [used |-> Mark(st.used, {y * w + x}),
              svg |-> Append(st.svg, PointElem(c, x, y))]
        ELSE st

\* Remaining text.
TextElem(c, x, y) ==
    [kind |-> "text", x |-> (x + 1) * SCALE, y |-> 4 + (y + 1) * SCALE * ASPECT,
     content |-> escapeHTMLEntities(<<c>>)]

TextCell(ls, w, x, y, st) ==
    IF ~st.used[y * w + x]
    THEN LET c == gridGet(ls, x, y)
         IN  IF c # " " /\ ~isVertex(c)
             THEN [used |-> st.used, svg |-> Append(st.svg, TextElem(c, x, y))]
             ELSE st
    ELSE st

\* The row-major double loop shared by the arrow, point and text passes.
RECURSIVE ArrowScan(_, _, _, _, _, _)
ArrowScan(ls, w, h, x, y, st) ==
    IF y >= h THEN st
    ELSE IF x >= w THEN ArrowScan(ls, w, h, 0, y + 1, st)
    ELSE ArrowScan(ls, w, h, x + 1, y, ArrowCell(ls, w, x, y, st))

RECURSIVE PointScan(_, _, _, _, _, _)
PointScan(ls, w, h, x, y, st) ==
    IF y >= h THEN st
    ELSE IF x >= w THEN PointScan(ls, w, h, 0, y + 1, st)
    ELSE PointScan(ls, w, h, x + 1, y, PointCell(ls, w, x, y, st))

RECURSIVE TextScan(_, _, _, _, _, _)
TextScan(ls, w, h, x, y, st) ==
    IF y >= h THEN st
    ELSE IF x >= w THEN TextScan(ls, w, h, 0, y + 1, st)
    ELSE TextScan(ls, w, h, x + 1, y, TextCell(ls, w, x, y, st))

ArrowPass(ls, w, h, st) == ArrowScan(ls, w, h, 0, 0, st)

PointPass(ls, w, h, st) == PointScan(ls, w, h, 0, 0, st)

GroupOpen == [kind |-> "g", class |-> "text"]
GroupClose == [kind |-> "/g"]
SvgClose == [kind |-> "/svg"]

\* Variant: the text group is left out when no text element is emitted.
TextPassSkipEmptyGroup(ls, w, h, st) ==
    LET scanned == TextScan(ls, w, h, 0, 0, st)
    IN  IF scanned.svg = st.svg
        THEN [used |-> scanned.used, svg |-> Append(scanned.svg, SvgClose)]
        ELSE [used |-> scanned.used,
              svg |-> st.svg \o <<GroupOpen>>
                      \o SubSeq(scanned.svg, Len(st.svg) + 1, Len(scanned.svg))
                      \o <<GroupClose, SvgClose>>]

TextPass(ls, w, h, st) ==
    LET opened == [used |-> st.used, svg |-> Append(st.svg, GroupOpen)]
        scanned == TextScan(ls, w, h, 0, 0, opened)
    IN  [used |-> scanned.used, svg |-> scanned.svg \o <<GroupClose, SvgClose>>]

\* render as one function: the composition of the stages.
Render(str) ==
    LET ls == Split(removeLeadingSpace(str))
        w == gridWidth(ls)
        h == gridHeight(ls)
        s0 == [used |-> InitUsed(w, h), svg |-> <<Header(w, h)>>]
        s1 == HLinePass(ls, w, h, s0)
        s2 == VLinePass(ls, w, h, s1)
        s3 == ArrowPass(ls, w, h, s2)
        s4 == PointPass(ls, w, h, s3)
        s5 == TextPass(ls, w, h, s4)
    IN  s5.svg

(***************************************************************************)
(* The state machine: one call of render, stage by stage.                  *)
(***************************************************************************)
cur == [used |-> used, svg |-> svg]

Init ==
    /\ diagramString \in Inputs
    /\ pc = "start"
    /\ processed = <<>>
    /\ reprocessed = <<>>
    /\ lines = <<>>
    /\ width = 0
    /\ height = 0
    /\ used = <<>>
    /\ svg = <<>>

Normalize ==
    /\ pc = "start"
    /\ processed' = removeLeadingSpace(diagramString)
    /\ lines' = Split(processed')
    /\ width' = gridWidth(lines')
    /\ height' = gridHeight(lines')
    /\ used' = InitUsed(width', height')
    /\ svg' = <<Header(width', height')>>
    /\ pc' = "hlines"
    /\ UNCHANGED <<diagramString, reprocessed>>

DrawHorizontalLines ==
    /\ pc = "hlines"
    /\ LET r == HLinePass(lines, width, height, cur)
       IN  used' = r.used /\ svg' = r.svg
    /\ pc' = "vlines"
    /\ UNCHANGED <<diagramString, processed, reprocessed, lines, width, height>>

DrawVerticalLines ==
    /\ pc = "vlines"
    /\ LET r == VLinePass(lines, width, height, cur)
       IN  used' = r.used /\ svg' = r.svg
    /\ pc' = "arrows"
    /\ UNCHANGED <<diagramString, processed, reprocessed, lines, width, height>>

DrawArrowHeads ==
    /\ pc = "arrows"
    /\ LET r == ArrowPass(lines, width, height, cur)
       IN  used' = r.used /\ svg' = r.svg
    /\ pc' = "points"
    /\ UNCHANGED <<diagramString, processed, reprocessed, lines, width, height>>

DrawPoints ==
    /\ pc = "points"
    /\ LET r == PointPass(lines, width, height, cur)
       IN  used' = r.used /\ svg' = r.svg
    /\ pc' = "text"
    /\ UNCHANGED <<diagramString, processed, reprocessed, lines, width, height>>

DrawText ==
    /\ pc = "text"
    /\ LET r == TextPass(lines, width, height, cur)
       IN  used' = r.used /\ svg' = r.svg
    /\ pc' = "done"
    /\ UNCHANGED <<diagramString, processed, reprocessed, lines, width, height>>

Next ==
    \/ Normalize
    \/ DrawHorizontalLines
    \/ DrawVerticalLines
    \/ DrawArrowHeads
    \/ DrawPoints
    \/ DrawText

Spec == Init /\ [][Next]_vars

\* render is one synchronous call: every stage that can run does run.
FairInit ==
    /\ diagramString \in FairInputs
    /\ pc = "start"
    /\ processed = <<>>
    /\ reprocessed = <<>>
    /\ lines = <<>>
    /\ width = 0
    /\ height = 0
    /\ used = <<>>
    /\ svg = <<>>

FairSpec == FairInit /\ [][Next]_vars /\ WF_vars(Next)

(***************************************************************************)
(* removeLeadingSpace on its own: applied once, then to its own result.    *)
(***************************************************************************)
DedentInit ==
    /\ diagramString \in DedentInputs
    /\ pc = "start"
    /\ processed = <<>>
    /\ reprocessed = <<>>
    /\ lines = <<>>
    /\ width = 0
    /\ height = 0
    /\ used = <<>>
    /\ svg = <<>>

DedentOnce ==
    /\ pc = "start"
    /\ processed' = removeLeadingSpace(diagramString)
    /\ pc' = "dedented"
    /\ UNCHANGED <<diagramString, reprocessed, lines, width, height, used, svg>>

DedentAgain ==
    /\ pc = "dedented"
    /\ reprocessed' = removeLeadingSpace(processed)
    /\ pc' = "dedented2"
    /\ UNCHANGED <<diagramString, processed, lines, width, height, used, svg>>

DedentNext == DedentOnce \/ DedentAgain

DedentSpec == DedentInit /\ [][DedentNext]_vars

(***************************************************************************)
(* Reading the emitted elements back: which grid cells an element spans.   *)
(***************************************************************************)
IsLine(e) == e.kind = "line"
IsHLine(e) == IF e.kind = "line" THEN e.y1 = e.y2 ELSE FALSE
IsVLine(e) == IF e.kind = "line" THEN e.x1 = e.x2 ELSE FALSE

Col(px) == px \div SCALE - 1
Row(py) == py \div (SCALE * ASPECT) - 1

Cells(e) ==
    IF e.kind = "line"
    THEN {<<x, y>> : x \in Col(e.x1)..Col(e.x2), y \in Row(e.y1)..Row(e.y2)}
    ELSE IF e.kind = "polygon" \/ e.kind = "circle" THEN {<<Col(e.cx), Row(e.cy)>>}
    ELSE IF e.kind = "text" THEN {<<Col(e.x), Row(e.y - 4)>>}
    ELSE {}

Count(P(_)) == Cardinality({i \in 1..Len(svg) : P(svg[i])})

GridCells == {<<x, y>> : x \in 0..(width - 1), y \in 0..(height - 1)}

IsBlank(line) == Trim(line) = <<>>

Rendering == pc \in {"hlines", "vlines", "arrows", "points", "text", "done"}

(***************************************************************************)
(* C1                                                                      *)
(***************************************************************************)
IsGroupOpen(e) == e.kind = "g"

WellFormedSVG ==
    /\ Len(svg) >= 2
    /\ svg[1].kind = "svg"
    /\ Count(IsGroupOpen) = 1
    /\ svg[Len(svg)].kind = "/svg"

\* C1: render is total: for every input (the empty string, whitespace-only
\* text and ragged lines included) the call runs to completion and returns a
\* document that starts with the <svg> root tag, contains exactly one
\* <g class="text"> group and ends with </svg>.
RenderTotal == <>(pc = "done" /\ WellFormedSVG)

RenderTotalWitness ==
    /\ pc = "done"
    /\ WellFormedSVG
    /\ \E i, j \in 1..Len(lines) : Len(lines[i]) # Len(lines[j]) /\ Len(lines[j]) > 0

(***************************************************************************)
(* C2                                                                      *)
(***************************************************************************)
\* C2 as stated: no grid cell lies in the span of two emitted elements.
NoCellInTwoElements ==
    Rendering =>
        \A i, j \in 1..Len(svg) : i < j => Cells(svg[i]) \cap Cells(svg[j]) = {}

\* C2 (amended): two emitted elements share a grid cell only when the first is
\* a horizontal line, the second a vertical line and the cell holds '+'; so a
\* cell lies in at most one element, or, for a '+', in one horizontal and one
\* vertical line.
CellSharedOnlyAtJunction ==
    Rendering =>
        \A i, j \in 1..Len(svg) : i < j =>
            \A c \in Cells(svg[i]) \cap Cells(svg[j]) :
                /\ IsHLine(svg[i])
                /\ IsVLine(svg[j])
                /\ gridGet(lines, c[1], c[2]) = "+"

JunctionWitness ==
    /\ pc = "done"
    /\ \E i, j \in 1..Len(svg) :
           /\ IsHLine(svg[i]) /\ IsVLine(svg[j])
           /\ Cells(svg[i]) \cap Cells(svg[j]) # {}

(***************************************************************************)
(* C3                                                                      *)
(***************************************************************************)
HCharAt(x, y) == x \in 0..(width - 1) /\ gridGet(lines, x, y) \in {"-", "+"}
VCharAt(x, y) == y \in 0..(height - 1) /\ gridGet(lines, x, y) \in {"|", "+"}

\* Maximal runs <<y, first, last>> of a row and <<x, first, last>> of a column.
MaximalHRuns ==
    {r \in (0..(height - 1)) \X (0..(width - 1)) \X (0..(width - 1)) :
        /\ r[2] <= r[3]
        /\ \A x \in r[2]..r[3] : HCharAt(x, r[1])
        /\ ~HCharAt(r[2] - 1, r[1])
        /\ ~HCharAt(r[3] + 1, r[1])}

MaximalVRuns ==
    {r \in (0..(width - 1)) \X (0..(height - 1)) \X (0..(height - 1)) :
        /\ r[2] <= r[3]
        /\ \A y \in r[2]..r[3] : VCharAt(r[1], y)
        /\ ~VCharAt(r[1], r[2] - 1)
        /\ ~VCharAt(r[1], r[3] + 1)}

HLineOfRun(r) == [kind |-> "line", x1 |-> 8 * (r[2] + 1), y1 |-> 16 * (r[1] + 1),
                  x2 |-> 8 * (r[3] + 1), y2 |-> 16 * (r[1] + 1)]
VLineOfRun(r) == [kind |-> "line", x1 |-> 8 * (r[1] + 1), y1 |-> 16 * (r[2] + 1),
                  x2 |-> 8 * (r[1] + 1), y2 |-> 16 * (r[3] + 1)]

Occurrences(e) == Cardinality({i \in 1..Len(svg) : svg[i] = e})

LoneDash(c) ==
    /\ gridGet(lines, c[1], c[2]) = "-"
    /\ ~HCharAt(c[1] - 1, c[2])
    /\ ~HCharAt(c[1] + 1, c[2])

LoneBar(c) ==
    /\ gridGet(lines, c[1], c[2]) = "|"
    /\ ~VCharAt(c[1], c[2] - 1)
    /\ ~VCharAt(c[1], c[2] + 1)

\* C3: minimum-run policy: every maximal run of horizontal (vertical) line
\* characters yields exactly one <line> when its length is at least 2 and
\* none when it is 1, there is no other <line>, and the cell of a lone '-' or
\* a lone '|' is in no <line> and has no <text>.
MinimumRunPolicy ==
    pc = "done" =>
        /\ \A r \in MaximalHRuns :
               Occurrences(HLineOfRun(r)) = IF r[3] - r[2] + 1 >= 2 THEN 1 ELSE 0
        /\ \A r \in MaximalVRuns :
               Occurrences(VLineOfRun(r)) = IF r[3] - r[2] + 1 >= 2 THEN 1 ELSE 0
        /\ \A i \in 1..Len(svg) : IsLine(svg[i]) =>
               \/ \E r \in MaximalHRuns : svg[i] = HLineOfRun(r)
               \/ \E r \in MaximalVRuns : svg[i] = VLineOfRun(r)
        /\ \A c \in GridCells : LoneDash(c) \/ LoneBar(c) =>
               \A i \in 1..Len(svg) : c \notin Cells(svg[i])

MinimumRunWitness ==
    /\ pc = "done"
    /\ \E r \in MaximalHRuns : r[3] - r[2] + 1 >= 2 /\ Occurrences(HLineOfRun(r)) = 1
    /\ \E c \in GridCells : LoneBar(c)

(***************************************************************************)
(* C4                                                                      *)
(***************************************************************************)
\* C4 as stated: the result of removeLeadingSpace has as many lines as its
\* argument, blank exactly where the argument's lines are blank.
DedentPreservesLineCount ==
    pc = "dedented" =>
        LET a == Split(diagramString)
            b == Split(processed)
        IN  /\ Len(b) = Len(a)
            /\ \A i \in 1..Len(a) : IsBlank(b[i]) <=> IsBlank(a[i])

Stripped(str) == MinimumIndent(str) # 0 /\ MinimumIndent(str) # Sentinel

\* C4 (amended): the result of removeLeadingSpace keeps the lines of its
\* argument in order, each blank exactly where the argument's line is blank;
\* when a common indent is stripped the result has one more line, an empty
\* one at the end, and otherwise the same number of lines.
DedentKeepsLinesAddsTrailing ==
    pc = "dedented" =>
        LET a == Split(diagramString)
            b == Split(processed)
        IN  /\ Len(b) = IF Stripped(diagramString) THEN Len(a) + 1 ELSE Len(a)
            /\ \A i \in 1..Len(a) : IsBlank(b[i]) <=> IsBlank(a[i])
            /\ Stripped(diagramString) => b[Len(b)] = <<>>

DedentLinesWitness ==
    /\ pc = "dedented"
    /\ processed # diagramString
    /\ \E i, j \in 1..Len(Split(diagramString)) :
           /\ IsBlank(Split(diagramString)[i])
           /\ ~IsBlank(Split(diagramString)[j])

(***************************************************************************)
(* C5                                                                      *)
(***************************************************************************)
\* C5: removeLeadingSpace is idempotent: applied to its own result it
\* returns that result.
DedentIdempotent == pc = "dedented2" => reprocessed = processed

DedentIdempotentWitness ==
    /\ pc = "dedented2"
    /\ processed # diagramString
    /\ \E i \in 1..Len(diagramString) : diagramString[i] = "\t"
    /\ \E i \in 1..Len(Split(diagramString)) :
           /\ IsBlank(Split(diagramString)[i])
           /\ Len(Split(diagramString)[i]) < MinimumIndent(diagramString)

(***************************************************************************)
(* C6                                                                      *)
(***************************************************************************)
Stage(e) ==
    IF e.kind = "svg" THEN 0
    ELSE IF IsHLine(e) THEN 1
    ELSE IF IsVLine(e) THEN 2
    ELSE IF e.kind = "polygon" THEN 3
    ELSE IF e.kind = "circle" THEN 4
    ELSE IF e.kind = "g" THEN 5
    ELSE IF e.kind = "text" THEN 6
    ELSE IF e.kind = "/g" THEN 7
    ELSE 8

\* C6: the output is in stage order at every moment of the call: header,
\* horizontal lines row by row, vertical lines column by column, polygons,
\* circles, the text group with every <text>, then </svg>.
StageOrder ==
    Rendering =>
        /\ svg[1].kind = "svg"
        /\ \A i, j \in 1..Len(svg) : i < j =>
               /\ Stage(svg[i]) <= Stage(svg[j])
               /\ IsHLine(svg[i]) /\ IsHLine(svg[j]) =>
                      \/ svg[i].y1 < svg[j].y1
                      \/ svg[i].y1 = svg[j].y1 /\ svg[i].x2 < svg[j].x1
               /\ IsVLine(svg[i]) /\ IsVLine(svg[j]) =>
                      \/ svg[i].x1 < svg[j].x1
                      \/ svg[i].x1 = svg[j].x1 /\ svg[i].y2 < svg[j].y1
        /\ pc = "done" => svg[Len(svg)].kind = "/svg"

StageOrderWitness ==
    /\ pc = "done"
    /\ \A k \in 0..8 : \E i \in 1..Len(svg) : Stage(svg[i]) = k

(***************************************************************************)
(* C7                                                                      *)
(***************************************************************************)
Entity(c) ==
    CASE c = "&" -> <<"&", "a", "m", "p", ";">>
      [] c = "<" -> <<"&", "l", "t", ";">>
      [] c = ">" -> <<"&", "g", "t", ";">>
      [] c = "\"" -> <<"&", "q", "u", "o", "t", ";">>
      [] OTHER -> <<c>>

Entities == {Entity("&"), Entity("<"), Entity(">"), Entity("\"")}

IsText(e) == e.kind = "text"

\* C7: the content of every <text> element is its cell's character with
\* '&', '<', '>' and '"' replaced by their entities and any other character
\* unchanged; it holds no '<', '>' or '"', and an '&' only as the start of
\* an entity.
TextEscaped ==
    Rendering =>
        \A i \in 1..Len(svg) : IsText(svg[i]) =>
            LET e == svg[i]
                c == gridGet(lines, Col(e.x), Row(e.y - 4))
            IN  /\ e.content = Entity(c)
                /\ \A k \in 1..Len(e.content) : e.content[k] \notin {"<", ">", "\""}
                /\ (\E k \in 1..Len(e.content) : e.content[k] = "&") => e.content \in Entities

TextEscapedWitness ==
    /\ pc = "done"
    /\ \E i \in 1..Len(svg) : IsText(svg[i]) /\ svg[i].content = Entity("&")
    /\ \E i \in 1..Len(svg) : IsText(svg[i]) /\ svg[i].content = <<"a">>

(***************************************************************************)
(* C8                                                                      *)
(***************************************************************************)
IsFilledCircle(e) ==
    IF e.kind = "circle" THEN e.fill = "black" /\ e.stroke = "none" ELSE FALSE
IsHollowCircle(e) ==
    IF e.kind = "circle" THEN e.fill = "white" /\ e.stroke = "black" ELSE FALSE
IsRightArrow(e) == IF e.kind = "polygon" THEN e.angle = 0 ELSE FALSE
IsPolygon(e) == e.kind = "polygon"
IsCircle(e) == e.kind = "circle"

ArrowExampleShapes ==
    /\ Count(IsFilledCircle) = 1
    /\ Count(IsHollowCircle) = 1
    /\ Count(IsCircle) = 2
    /\ Count(IsRightArrow) = 1
    /\ Count(IsPolygon) = 1
    /\ Count(IsLine) = 0
    /\ \A i \in 1..Len(svg) : IsText(svg[i]) => svg[i].content # <<" ">>

\* C8 as stated: render("* -> o") has one filled circle, one polygon rotated
\* by 0, one hollow circle and one <text> element.
ArrowExampleOneText ==
    pc = "done" /\ diagramString = ArrowExample =>
        ArrowExampleShapes /\ Count(IsText) = 1

\* C8 (amended): render("* -> o") has one filled circle, one polygon rotated
\* by 0, one hollow circle and no <text> element; no space is emitted as text.
ArrowExampleNoText ==
    pc = "done" /\ diagramString = ArrowExample =>
        ArrowExampleShapes /\ Count(IsText) = 0

ArrowExampleWitness ==
    /\ pc = "done"
    /\ diagramString = ArrowExample
    /\ Count(IsCircle) = 2
    /\ Count(IsPolygon) = 1

(***************************************************************************)
(* C9                                                                      *)
(***************************************************************************)
TextsAt(c) == {i \in 1..Len(svg) : IsText(svg[i]) /\ c \in Cells(svg[i])}

Kinds(c) ==
    {k \in {"line", "polygon", "circle", "text"} :
        \E i \in 1..Len(svg) : svg[i].kind = k /\ c \in Cells(svg[i])}

\* C9: a grid cell has a <text> element exactly when no earlier pass marked
\* it used and its character is neither a space nor a vertex marker; no cell
\* contributes to two of the kinds line, arrowhead, point and text, and a
\* cell holding a line, arrowhead or point character has no <text>.
TextOnlyForUnusedCells ==
    pc = "done" =>
        /\ \A i \in 1..Len(svg) : Cells(svg[i]) \subseteq GridCells
        /\ \A c \in GridCells :
               LET ch == gridGet(lines, c[1], c[2])
               IN  /\ Cardinality(TextsAt(c)) =
                          IF ~used[c[2] * width + c[1]] /\ ch # " " /\ ~isVertex(ch)
                          THEN 1 ELSE 0
                   /\ Cardinality(Kinds(c)) <= 1
                   /\ ch \in {"-", "|", "+", ">", "<", "^", "v", "V", "o", "*"}
                          => TextsAt(c) = {}

TextOnlyWitness ==
    /\ pc = "done"
    /\ \E c \in GridCells : TextsAt(c) # {}
    /\ \E c \in GridCells : Kinds(c) = {"polygon"}
    /\ \E c \in GridCells : gridGet(lines, c[1], c[2]) = "-" /\ Kinds(c) = {}

(***************************************************************************)
(* C10                                                                     *)
(***************************************************************************)
Spaces(count) == [i \in 1..count |-> " "]

IndentLine(line, count) == IF IsBlank(line) THEN line ELSE Spaces(count) \o line

RECURSIVE IndentFrom(_, _, _)
IndentFrom(lineArray, i, count) ==
    IF i > Len(lineArray) THEN <<>>
    ELSE IF i = Len(lineArray) THEN IndentLine(lineArray[i], count)
    ELSE IndentLine(lineArray[i], count) \o <<"\n">> \o IndentFrom(lineArray, i + 1, count)

\* count spaces in front of every non-blank line of str.
Indent(str, count) == IndentFrom(Split(str), 1, count)

\* C10: rendering is invariant under uniform indentation: when the non-blank
\* lines of the diagram share no leading whitespace, the diagram with k >= 1
\* spaces in front of every non-blank line renders to the same document.
IndentInvariance ==
    pc = "start" /\ ~Stripped(diagramString) =>
        \A n \in 1..MaxIndent : Render(Indent(diagramString, n)) = Render(diagramString)

TypeOK ==
    /\ pc \in {"start", "hlines", "vlines", "arrows", "points", "text", "done",
               "dedented", "dedented2"}
    /\ width \in Nat
    /\ height \in Nat
    /\ pc \notin {"start", "dedented", "dedented2"} => DOMAIN used = 0..(height * width - 1)
====
